---- MODULE Spec2Model ----
(***************************************************************************)
(* Model of traitsui/undo.py: the change records (UndoItem, ListUndoItem), *)
(* their merge rules, and the UndoHistory that records, undoes, redoes,    *)
(* reverts and clears transactions of change records.                      *)
(*                                                                         *)
(* The Python semantics modelled are those of the interpreters the module  *)
(* was written for (Python 2.7 / 3.x with collections.Sequence).           *)
(***************************************************************************)
EXTENDS Integers, Sequences, FiniteSets, TLC

VARIABLES
    history,    \* UndoHistory.history: list of transactions (lists of items)
    now,        \* UndoHistory.now: the cursor
    undoable,   \* value most recently fired on the `undoable` event
    redoable,   \* value most recently fired on the `redoable` event
    fields,     \* the tracked object traits: field -> current value
    last,       \* the last call on the history: what it was, in summary
    m_self,     \* merge_undo scenario: the receiving record
    m_cand,     \* merge_undo scenario: the candidate record
    m_res,      \* merge_undo scenario: "none" before the call, then the result
    m_base,     \* the tracked traits as they were when the behaviour began
    grouping    \* TRUE where the user interface groups changes (more records)

vars == <<history, now, undoable, redoable, fields, last,
          m_self, m_cand, m_res, m_base, grouping>>

-----------------------------------------------------------------------------
(* Bounds of the model.                                                    *)

MaxRecs == 2        \* most records the transactions of the history may hold
MaxSeqLen == 2      \* longest list value
MaxStrLen == 2      \* longest character string

Min(a, b) == IF a <= b THEN a ELSE b
Max(a, b) == IF a >= b THEN a ELSE b
Abs(a) == IF a >= 0 THEN a ELSE 0 - a

SeqsUpTo(S, n) == UNION {[1..k -> S] : k \in 0..n}

-----------------------------------------------------------------------------
(* Python values.  Every value is [t, n, s]: t the name of its type, n the *)
(* payload of a numeric scalar, s the elements of a string or a list.  An  *)
(* element is [t, n]; the elements of a string are its characters, which   *)
(* in Python are themselves strings.  Elements stand for object            *)
(* identities, so `is` on elements is equality here.                       *)

IntV(k) == [t |-> "int", n |-> k, s |-> <<>>]
FloatV(k) == [t |-> "float", n |-> k, s |-> <<>>]
StrV(cs) == [t |-> "str", n |-> 0, s |-> cs]
ListV(es) == [t |-> "list", n |-> 0, s |-> es]
NoneV == [t |-> "NoneType", n |-> 0, s |-> <<>>]

Chars == {[t |-> "str", n |-> c] : c \in 0..1}
IntElems == {[t |-> "int", n |-> k] : k \in 0..1}
ObjElems == {[t |-> "obj", n |-> 0]}

\* NumericTypes = six.integer_types + (float, complex)
NumericTypes == {"int", "long", "float", "complex"}
\* SimpleTypes = (six.text_type, bytes) + NumericTypes
SimpleTypes == {"str", "unicode", "bytes"} \cup NumericTypes

\* type(v): the type object of a value
TypeOf(v) == [meta |-> "type", name |-> v.t]
\* isinstance(v, t) for a value (or element) v and a type object t
IsInstance(v, t) == v.t = t.name
\* isinstance(x, six.string_types) for any Python object x, a type object
\* included: a type object is not a string
IsStringInstance(x) == IF "meta" \in DOMAIN x THEN FALSE
                       ELSE x.t \in {"str", "unicode"}
\* isinstance(v, collections.Sequence)
IsSequence(v) == v.t \in {"str", "unicode", "bytes", "list", "tuple"}
\* v[k:] on the elements of a value (k >= 0)
SliceFrom(s, k) == SubSeq(s, k + 1, Len(s))

-----------------------------------------------------------------------------
(* Change records.                                                         *)

UndoItem(o, nm, old, new) ==
    [cls |-> "UndoItem", object |-> o, name |-> nm,
     old_value |-> old, new_value |-> new]

ListUndoItem(o, nm, idx, add, rem) ==
    [cls |-> "ListUndoItem", object |-> o, name |-> nm,
     index |-> idx, added |-> add, removed |-> rem]

\* The result of merge_undo: what it returned and the receiver afterwards.
MergeResult(ok, self) == [ok |-> ok, self |-> self]

\* The mergeability precondition shared by both classes (lines 122-124,
\* 238-240): same class, same object, same trait name.
SameTrait(self, undo_item) ==
    /\ undo_item.cls = self.cls
    /\ self.object = undo_item.object
    /\ self.name = undo_item.name

\* Length of the common prefix: the `while` loop of lines 140-142.
RECURSIVE CommonPrefix(_, _, _, _)
CommonPrefix(v1, v2, n, i) ==
    IF i < n /\ v1[i + 1] = v2[i + 1]
    THEN CommonPrefix(v1, v2, n, i + 1)
    ELSE i

\* The string branch, lines 135-145 (falls through to `return False`).
StringMerge(self, v1, v2) ==
    LET n1 == Len(v1.s)
        n2 == Len(v2.s)
        n == Min(n1, n2)
        i == CommonPrefix(v1.s, v2.s, n, 0)
    IN IF Abs(n1 - n2) > 1 THEN MergeResult(FALSE, self)
       ELSE IF SliceFrom(v1.s, i + (IF n2 <= n1 THEN 1 ELSE 0))
                 = SliceFrom(v2.s, i + (IF n2 >= n1 THEN 1 ELSE 0))
            THEN MergeResult(TRUE, [self EXCEPT !.new_value = v2])
            ELSE MergeResult(FALSE, self)

\* One round of the `for` loop of lines 159-167: does element i differ?
ElemDiffers(item, item2) ==
    \/ item.t \notin SimpleTypes
    \/ ~IsInstance(item2, TypeOf(item))
    \/ item # item2

\* The number of differing positions among the first k elements.
RECURSIVE Diffs(_, _, _)
Diffs(s1, s2, k) ==
    IF k = 0 THEN 0
    ELSE Diffs(s1, s2, k - 1) + (IF ElemDiffers(s1[k], s2[k]) THEN 1 ELSE 0)

\* The sequence branch without its `if diffs == 0: return False`.
SequenceMerge_ZeroDiffs(self, v2) ==
    LET v1 == self.old_value
    IN IF IsSequence(v1) /\ Len(v1.s) = Len(v2.s)
       THEN IF Diffs(v1.s, v2.s, Len(v1.s)) >= 2
            THEN MergeResult(FALSE, self)
            ELSE MergeResult(TRUE, [self EXCEPT !.new_value = v2])
       ELSE MergeResult(FALSE, self)

\* The sequence branch assigning self.new_value = v2 before it counts the
\* differing positions.
SequenceMerge_AssignsFirst(self, v2) ==
    LET v1 == self.old_value
        assigned == [self EXCEPT !.new_value = v2]
    IN IF IsSequence(v1) /\ Len(v1.s) = Len(v2.s)
       THEN LET diffs == Diffs(v1.s, v2.s, Len(v1.s))
            IN IF diffs >= 2 \/ diffs = 0
               THEN MergeResult(FALSE, assigned)
               ELSE MergeResult(TRUE, assigned)
       ELSE MergeResult(FALSE, self)

\* The sequence branch, lines 151-173, v1 rebound to self.old_value.
SequenceMerge(self, v2) ==
    LET v1 == self.old_value
    IN IF IsSequence(v1) /\ Len(v1.s) = Len(v2.s)
       THEN LET diffs == Diffs(v1.s, v2.s, Len(v1.s))
            IN IF diffs >= 2 \/ diffs = 0
               THEN MergeResult(FALSE, self)
               ELSE MergeResult(TRUE, [self EXCEPT !.new_value = v2])
       ELSE MergeResult(FALSE, self)

\* merge_undo with a numeric branch that returns True but keeps the
\* receiver's own new value.
UndoItem_merge_undo_KeepsNew(self, undo_item) ==
    IF SameTrait(self, undo_item)
    THEN LET v1 == self.new_value
             v2 == undo_item.new_value
             t1 == TypeOf(v1)
         IN IF IsInstance(v2, t1)
            THEN IF IsStringInstance(t1) THEN StringMerge(self, v1, v2)
                 ELSE IF IsSequence(v1) THEN SequenceMerge(self, v2)
                 ELSE IF t1.name \in NumericTypes
                      THEN MergeResult(TRUE, self)
                      ELSE MergeResult(FALSE, self)
            ELSE MergeResult(FALSE, self)
    ELSE MergeResult(FALSE, self)

\* UndoItem.merge_undo, lines 117-179.
UndoItem_merge_undo(self, undo_item) ==
    IF SameTrait(self, undo_item)
    THEN LET v1 == self.new_value
             v2 == undo_item.new_value
             t1 == TypeOf(v1)
         IN IF IsInstance(v2, t1)
            THEN IF IsStringInstance(t1) THEN StringMerge(self, v1, v2)
                 ELSE IF IsSequence(v1) THEN SequenceMerge(self, v2)
                 ELSE IF t1.name \in NumericTypes
                      THEN MergeResult(TRUE, [self EXCEPT !.new_value = v2])
                      ELSE MergeResult(FALSE, self)
            ELSE MergeResult(FALSE, self)
    ELSE MergeResult(FALSE, self)

\* ListUndoItem.merge_undo, lines 232-255: identical splices are dropped.
ListUndoItem_merge_undo(self, undo_item) ==
    IF SameTrait(self, undo_item) /\ self.index = undo_item.index
    THEN LET added == undo_item.added
             removed == undo_item.removed
         IN IF /\ Len(self.added) = Len(added)
               /\ Len(self.removed) = Len(removed)
               /\ \A i \in 1..Len(self.added) : self.added[i] = added[i]
               /\ \A i \in 1..Len(self.removed) : self.removed[i] = removed[i]
            THEN MergeResult(TRUE, self)
            ELSE MergeResult(FALSE, self)
    ELSE MergeResult(FALSE, self)

\* item.merge_undo(undo_item), dispatched on the receiver's class.
merge_undo(self, undo_item) ==
    IF self.cls = "UndoItem" THEN UndoItem_merge_undo(self, undo_item)
    ELSE IF self.cls = "ListUndoItem" THEN ListUndoItem_merge_undo(self, undo_item)
    ELSE MergeResult(FALSE, self)

-----------------------------------------------------------------------------
(* The tracked object traits.  A field is <<object, name>>.                *)

FX == <<"o1", "x">>         \* a numeric trait
FL == <<"o1", "l">>         \* a list trait
Tracked == {FX, FL}

FieldOf(item) == <<item.object, item.name>>

InitFields == [f \in Tracked |-> IF f = FX THEN IntV(0) ELSE ListV(<<>>)]

\* Python's list[i:j] = repl for 0 <= i (both ends clamp to the length, and
\* an end before the start is the start).
SliceAssign(s, i, j, repl) ==
    LET lo == Min(i, Len(s))
        hi == Max(lo, Min(j, Len(s)))
    IN SubSeq(s, 1, lo) \o repl \o SubSeq(s, hi + 1, Len(s))

-----------------------------------------------------------------------------
(* A call on the history runs on a machine record m:                       *)
(*   history, now, undoable, redoable : the UndoHistory's traits and the   *)
(*       values last fired on its two events;                              *)
(*   fields : the tracked traits;                                          *)
(*   log    : what the call did so far, in order (records called, events   *)
(*       fired, faults routed to the sink);                                *)
(*   raised : TRUE once an exception is propagating out of the call.       *)

NoItem == [cls |-> "None"]

Machine(h, n, u, r, f) ==
    [history |-> h, now |-> n, undoable |-> u, redoable |-> r,
     fields |-> f, log |-> <<>>, raised |-> FALSE]

\* self.undoable = val / self.redoable = val: an Event fires on every set.
Fire(m, sig, val) ==
    [m EXCEPT ![sig] = val,
              !.log = Append(@, [ev |-> "emit", sig |-> sig, val |-> val])]

\* A record's undo() or redo() is entered.
Called(m, what, item) ==
    [m EXCEPT !.log = Append(@, [ev |-> what, item |-> item,
                                 now |-> m.now, hlen |-> Len(m.history)])]

\* traitsui.api.raise_to_debug(): the fault sink; the fault ends there.
raise_to_debug(m, item) ==
    [m EXCEPT !.log = Append(@, [ev |-> "fault", item |-> item])]

\* setattr(self.object, self.name, value) without the try/except: the
\* exception propagates.
Uncaught_SetAttr(m, brk, item, value) ==
    IF FieldOf(item) \in brk
    THEN [m EXCEPT !.raised = TRUE]
    ELSE [m EXCEPT !.fields[FieldOf(item)] = value]

\* setattr(self.object, self.name, value) inside try/except (lines 102-106,
\* 111-115).
TrySetAttr(m, brk, item, value) ==
    IF FieldOf(item) \in brk
    THEN raise_to_debug(m, item)
    ELSE [m EXCEPT !.fields[FieldOf(item)] = value]

\* UndoItem.undo, lines 99-106.
UndoItem_undo(self, m, brk) ==
    TrySetAttr(Called(m, "undo", self), brk, self, self.old_value)

\* UndoItem.redo, lines 108-115.
UndoItem_redo(self, m, brk) ==
    TrySetAttr(Called(m, "redo", self), brk, self, self.new_value)

\* list = getattr(object, name); list[i:j] = repl inside try/except
\* (lines 215-220, 225-230): a value that is no list raises as well.
TrySplice(m, brk, item, i, j, repl) ==
    LET f == FieldOf(item)
    IN IF f \in brk \/ m.fields[f].t # "list"
       THEN raise_to_debug(m, item)
       ELSE [m EXCEPT !.fields[f] = ListV(SliceAssign(m.fields[f].s, i, j, repl))]

\* ListUndoItem.undo slicing by len(self.removed) instead of len(self.added).
ListUndoItem_undo_ByRemoved(self, m, brk) ==
    TrySplice(Called(m, "undo", self), brk, self,
              self.index, self.index + Len(self.removed), self.removed)

\* ListUndoItem.undo, lines 212-220.
ListUndoItem_undo(self, m, brk) ==
    TrySplice(Called(m, "undo", self), brk, self,
              self.index, self.index + Len(self.added), self.removed)

\* ListUndoItem.redo, lines 222-230.
ListUndoItem_redo(self, m, brk) ==
    TrySplice(Called(m, "redo", self), brk, self,
              self.index, self.index + Len(self.removed), self.added)

\* item.undo() / item.redo(), dispatched on the class; nothing runs once an
\* exception propagates.
item_undo(self, m, brk) ==
    IF m.raised THEN m
    ELSE IF self.cls = "UndoItem" THEN UndoItem_undo(self, m, brk)
    ELSE ListUndoItem_undo(self, m, brk)

item_redo(self, m, brk) ==
    IF m.raised THEN m
    ELSE IF self.cls = "UndoItem" THEN UndoItem_redo(self, m, brk)
    ELSE ListUndoItem_redo(self, m, brk)

\* The loop of undo running forward: for item in items: item.undo()
RECURSIVE UndoBackward_Forward(_, _, _, _)
UndoBackward_Forward(items, i, m, brk) ==
    IF i = 0 THEN m
    ELSE item_undo(items[i], UndoBackward_Forward(items, i - 1, m, brk), brk)

\* for i in range(len(items) - 1, -1, -1): items[i].undo()
RECURSIVE UndoBackward(_, _, _, _)
UndoBackward(items, i, m, brk) ==
    IF i = 0 THEN m
    ELSE UndoBackward(items, i - 1, item_undo(items[i], m, brk), brk)

\* for item in items: item.redo()
RECURSIVE RedoForward(_, _, _, _)
RedoForward(items, i, m, brk) ==
    IF i > Len(items) THEN m
    ELSE RedoForward(items, i + 1, item_redo(items[i], m, brk), brk)

\* UndoHistory._get_can_undo, lines 370-373.
can_undo(m) == m.now > 0

\* UndoHistory._get_can_redo, lines 375-378.
can_redo(m) == m.now < Len(m.history)

\* extend discarding the transactions in front of the cursor, as add does.
UndoHistory_extend_Truncates(m, undo_item) ==
    IF m.now > 0
    THEN LET undo_list == m.history[m.now]
             res == merge_undo(undo_list[Len(undo_list)], undo_item)
             kept == SubSeq(m.history, 1, m.now)
         IN IF res.ok
            THEN [m EXCEPT !.history = [kept EXCEPT ![m.now][Len(undo_list)] = res.self]]
            ELSE [m EXCEPT !.history = [kept EXCEPT ![m.now] = Append(undo_list, undo_item)]]
    ELSE m

\* extend working on the last transaction of the history, wherever the
\* cursor stands.
UndoHistory_extend_Last(m, undo_item) ==
    IF Len(m.history) > 0
    THEN LET k == Len(m.history)
             undo_list == m.history[k]
             res == merge_undo(undo_list[Len(undo_list)], undo_item)
         IN IF res.ok
            THEN [m EXCEPT !.history[k][Len(undo_list)] = res.self]
            ELSE [m EXCEPT !.history[k] = Append(undo_list, undo_item)]
    ELSE m

\* UndoHistory.extend, lines 312-321.
UndoHistory_extend(m, undo_item) ==
    IF m.now > 0
    THEN LET undo_list == m.history[m.now]
             res == merge_undo(undo_list[Len(undo_list)], undo_item)
         IN IF res.ok
            THEN [m EXCEPT !.history[m.now][Len(undo_list)] = res.self]
            ELSE [m EXCEPT !.history[m.now] = Append(undo_list, undo_item)]
    ELSE m

\* The merge attempt of add without its `len(previous) == 1` test: the
\* first record of the transaction behind the cursor is tried whatever the
\* transaction holds.
AddMerge_AnyLength(m, undo_item) ==
    IF m.now > 0
    THEN LET res == merge_undo(m.history[m.now][1], undo_item)
         IN IF res.ok
            THEN [ok |-> TRUE,
                  m |-> [m EXCEPT !.history =
                            [SubSeq(m.history, 1, m.now) EXCEPT
                                ![m.now] = <<res.self>> \o Tail(m.history[m.now])]]]
            ELSE [ok |-> FALSE, m |-> m]
    ELSE [ok |-> FALSE, m |-> m]

\* The merge attempt of add, lines 297-302: <<merged, machine>>.
AddMerge(m, undo_item) ==
    IF m.now > 0 /\ Len(m.history[m.now]) = 1
    THEN LET res == merge_undo(m.history[m.now][1], undo_item)
         IN IF res.ok
            THEN [ok |-> TRUE,
                  m |-> [m EXCEPT !.history =
                            [SubSeq(m.history, 1, m.now) EXCEPT ![m.now] = <<res.self>>]]]
            ELSE [ok |-> FALSE, m |-> m]
    ELSE [ok |-> FALSE, m |-> m]

\* The append of add committing an empty transaction: self.history[now:] = [[]].
AddAppend_Empty(m, undo_item) ==
    LET old_len == Len(m.history)
        m1 == [m EXCEPT !.history = Append(SubSeq(m.history, 1, m.now), <<>>),
                        !.now = m.now + 1]
        m2 == IF m1.now = 1 THEN Fire(m1, "undoable", TRUE) ELSE m1
    IN IF m2.now <= old_len THEN Fire(m2, "redoable", FALSE) ELSE m2

\* The append of add with self.history.append([undo_item]) in place of the
\* slice assignment: the redoable transactions stay.
AddAppend_NoTruncate(m, undo_item) ==
    LET old_len == Len(m.history)
        m1 == [m EXCEPT !.history = Append(m.history, <<undo_item>>),
                        !.now = m.now + 1]
        m2 == IF m1.now = 1 THEN Fire(m1, "undoable", TRUE) ELSE m1
    IN IF m2.now <= old_len THEN Fire(m2, "redoable", FALSE) ELSE m2

\* The append of add, lines 304-310.
AddAppend(m, undo_item) ==
    LET old_len == Len(m.history)
        m1 == [m EXCEPT !.history = Append(SubSeq(m.history, 1, m.now), <<undo_item>>),
                        !.now = m.now + 1]
        m2 == IF m1.now = 1 THEN Fire(m1, "undoable", TRUE) ELSE m1
    IN IF m2.now <= old_len THEN Fire(m2, "redoable", FALSE) ELSE m2

\* UndoHistory.add, lines 289-310.
UndoHistory_add(m, undo_item, extend) ==
    IF extend THEN UndoHistory_extend(m, undo_item)
    ELSE LET merged == AddMerge(m, undo_item)
         IN IF merged.ok THEN merged.m ELSE AddAppend(m, undo_item)

\* The signal updates closing undo, lines 331-334.
UndoSignals(m) ==
    IF m.raised THEN m
    ELSE LET m1 == IF m.now = 0 THEN Fire(m, "undoable", FALSE) ELSE m
         IN IF m1.now = Len(m1.history) - 1 THEN Fire(m1, "redoable", TRUE) ELSE m1

\* undo with the `undoable` update outside the can_undo guard.
UndoHistory_undo_Unguarded(m, brk) ==
    IF can_undo(m)
    THEN LET m1 == [m EXCEPT !.now = m.now - 1]
             items == m1.history[m1.now + 1]
         IN UndoSignals(UndoBackward(items, Len(items), m1, brk))
    ELSE Fire(m, "undoable", FALSE)

\* UndoHistory.undo, lines 323-334.
UndoHistory_undo(m, brk) ==
    IF can_undo(m)
    THEN LET m1 == [m EXCEPT !.now = m.now - 1]
             items == m1.history[m1.now + 1]
         IN UndoSignals(UndoBackward(items, Len(items), m1, brk))
    ELSE m

\* The signal updates closing redo, lines 343-346.
RedoSignals(m) ==
    IF m.raised THEN m
    ELSE LET m1 == IF m.now = 1 THEN Fire(m, "undoable", TRUE) ELSE m
         IN IF m1.now = Len(m1.history) THEN Fire(m1, "redoable", FALSE) ELSE m1

\* UndoHistory.redo, lines 336-346.
UndoHistory_redo(m, brk) ==
    IF can_redo(m)
    THEN LET m1 == [m EXCEPT !.now = m.now + 1]
         IN RedoSignals(RedoForward(m1.history[m1.now], 1, m1, brk))
    ELSE m

\* clear without `self.now = 0`.
UndoHistory_clear_KeepsNow(m) ==
    LET old_len == Len(m.history)
        old_now == m.now
        m1 == [m EXCEPT !.history = <<>>]
        m2 == IF old_now > 0 THEN Fire(m1, "undoable", FALSE) ELSE m1
    IN IF old_now < old_len THEN Fire(m2, "redoable", FALSE) ELSE m2

\* clear firing both events whatever the state was.
UndoHistory_clear_AlwaysFires(m) ==
    Fire(Fire([m EXCEPT !.now = 0, !.history = <<>>], "undoable", FALSE),
         "redoable", FALSE)

\* UndoHistory.clear, lines 358-368.
UndoHistory_clear(m) ==
    LET old_len == Len(m.history)
        old_now == m.now
        m1 == [m EXCEPT !.now = 0, !.history = <<>>]
        m2 == IF old_now > 0 THEN Fire(m1, "undoable", FALSE) ELSE m1
    IN IF old_now < old_len THEN Fire(m2, "redoable", FALSE) ELSE m2

\* The outer loop of revert, lines 353-356.
RECURSIVE RevertLoop(_, _, _, _)
RevertLoop(hist, i, m, brk) ==
    IF i = 0 THEN m
    ELSE RevertLoop(hist, i - 1, UndoBackward(hist[i], Len(hist[i]), m, brk), brk)

\* revert undoing the copied transactions first and clearing afterwards.
UndoHistory_revert_ClearsLast(m, brk) ==
    LET hist == SubSeq(m.history, 1, m.now)
    IN UndoHistory_clear(RevertLoop(hist, Len(hist), m, brk))

\* revert copying the whole history: the redoable transactions are undone
\* as well.
UndoHistory_revert_All(m, brk) ==
    LET hist == m.history
    IN RevertLoop(hist, Len(hist), UndoHistory_clear(m), brk)

\* UndoHistory.revert, lines 348-356: the copy is taken, the history is
\* cleared, and only then are the copied transactions undone.
UndoHistory_revert(m, brk) ==
    LET hist == SubSeq(m.history, 1, m.now)
    IN RevertLoop(hist, Len(hist), UndoHistory_clear(m), brk)

\* UndoHistoryUndoItem.undo replaying every transaction of the nested
\* history, those in front of its cursor included.
UndoHistoryUndoItem_undo_All(m, brk) ==
    RevertLoop(m.history, Len(m.history), m, brk)

\* UndoHistoryUndoItem.undo, lines 395-402, on the nested history m:
\* for i in range(history.now - 1, -1, -1), records last to first.
UndoHistoryUndoItem_undo(m, brk) ==
    RevertLoop(m.history, m.now, m, brk)

\* for i in range(0, history.now): for item in history.history[i]
RECURSIVE ReplayLoop(_, _, _, _, _)
ReplayLoop(hist, i, n, m, brk) ==
    IF i > n THEN m
    ELSE ReplayLoop(hist, i + 1, n, RedoForward(hist[i], 1, m, brk), brk)

\* UndoHistoryUndoItem.redo, lines 404-410, on the nested history m.
UndoHistoryUndoItem_redo(m, brk) ==
    ReplayLoop(m.history, 1, m.now, m, brk)

-----------------------------------------------------------------------------
(* The state machine of one UndoHistory and the traits it tracks.  The     *)
(* observers of the user interface build a change record from each change  *)
(* of a tracked trait and hand it to the history.                          *)

\* The values the numeric trait takes and the objects the list trait holds.
NumVals == {IntV(0), IntV(1)}
SpliceElems == {[t |-> "int", n |-> 0]}

\* The sets of traits whose assignment may raise during one call: the
\* trait's validation refuses the recorded value, or its object is gone.
FaultSets == SUBSET Tracked

NoMerge == [done |-> FALSE, ok |-> FALSE, self |-> NoItem]

Cur == Machine(history, now, undoable, redoable, fields)

\* The changes of the numeric trait an observer may see in this state:
\* the record it builds and the trait values after the change.
SetChanges ==
    {[item |-> UndoItem(FX[1], FX[2], fields[FX], v),
      fields |-> [fields EXCEPT ![FX] = v]] : v \in NumVals \ {fields[FX]}}

\* The splices of the list trait (insert, delete or replace at an index)
\* an observer may see in this state.
SpliceChanges ==
    LET cur == fields[FL].s
        Args == {a \in (0..Len(cur)) \X (0..1) \X SeqsUpTo(SpliceElems, 1) :
                    /\ a[1] + a[2] <= Len(cur)
                    /\ SubSeq(cur, a[1] + 1, a[1] + a[2]) # a[3]
                    /\ Len(cur) - a[2] + Len(a[3]) <= MaxSeqLen}
    IN {[item |-> ListUndoItem(FL[1], FL[2], a[1], a[3],
                               SubSeq(cur, a[1] + 1, a[1] + a[2])),
         fields |-> [fields EXCEPT ![FL] =
                        ListV(SliceAssign(cur, a[1], a[1] + a[2], a[3]))]] : a \in Args}

\* Did the call merge the record into an existing one?
Merged(m, item, extend) ==
    IF extend
    THEN m.now > 0 /\ merge_undo(m.history[m.now][Len(m.history[m.now])], item).ok
    ELSE AddMerge(m, item).ok

\* The number of faults the call routed to the sink.
Faults(m) == Cardinality({i \in 1..Len(m.log) : m.log[i].ev = "fault"})

\* The number of records whose undo() or redo() the call entered.
Entries(m) == Cardinality({i \in 1..Len(m.log) : m.log[i].ev \in {"undo", "redo"}})

\* `last` sums up the last call on the history: its name, its extend flag,
\* whether it merged its record, whether there were redoable transactions
\* when it began, whether it met a fault, whether it raised and how many
\* records it entered.
NoCall == [op |-> "init", extend |-> FALSE, merged |-> FALSE, tail |-> FALSE,
           faults |-> FALSE, raised |-> FALSE, entered |-> 0]

Init ==
    /\ history = <<>>
    /\ now = 0
    /\ undoable = FALSE
    /\ redoable = FALSE
    /\ fields = InitFields
    /\ last = NoCall
    /\ m_self = NoItem
    /\ m_cand = NoItem
    /\ m_res = NoMerge
    /\ m_base = InitFields
    /\ grouping = FALSE

\* The number of records in the first k transactions.
RECURSIVE Records(_, _)
Records(h, k) == IF k = 0 THEN 0 ELSE Records(h, k - 1) + Len(h[k])

\* The bounds of the model: the records held and the length of the list
\* trait (which undo and redo may change too).
WithinBounds(m) ==
    /\ Records(m.history, Len(m.history)) <= MaxRecs
    /\ Len(m.fields[FL].s) <= MaxSeqLen

\* The bounds where changes are grouped: one record more, so that a
\* transaction of two records can be followed by another transaction.
WithinGroupBounds(m) ==
    /\ Records(m.history, Len(m.history)) <= MaxRecs + 1
    /\ Len(m.history) <= MaxRecs
    /\ Len(m.fields[FL].s) <= MaxSeqLen

\* The call `op` took the machine from m0 to m1.
Commit(op, extend, merged, m0, m1) ==
    /\ IF grouping THEN WithinGroupBounds(m1) ELSE WithinBounds(m1)
    /\ history' = m1.history
    /\ now' = m1.now
    /\ undoable' = m1.undoable
    /\ redoable' = m1.redoable
    /\ fields' = m1.fields
    /\ last' = [op |-> op, extend |-> extend, merged |-> merged,
                tail |-> can_redo(m0), faults |-> Faults(m1) > 0,
                raised |-> m1.raised, entered |-> Entries(m1)]

\* A tracked trait changed and its observer calls add(item, extend).
Record(change, extend) ==
    LET m0 == Machine(history, now, undoable, redoable, change.fields)
        m1 == UndoHistory_add(m0, change.item, extend)
    IN /\ Commit("add", extend, Merged(m0, change.item, extend), m0, m1)
       /\ UNCHANGED <<m_self, m_cand, m_res, m_base, grouping>>

SetTrait(extend) == \E c \in SetChanges : Record(c, extend)

SpliceTrait(extend) == \E c \in SpliceChanges : Record(c, extend)

\* The user undoes, redoes or reverts while the traits of brk reject the
\* values assigned to them.
UndoWith(brk) ==
    /\ Commit("undo", FALSE, FALSE, Cur, UndoHistory_undo(Cur, brk))
    /\ UNCHANGED <<m_self, m_cand, m_res, m_base, grouping>>

RedoWith(brk) ==
    /\ Commit("redo", FALSE, FALSE, Cur, UndoHistory_redo(Cur, brk))
    /\ UNCHANGED <<m_self, m_cand, m_res, m_base, grouping>>

RevertWith(brk) ==
    /\ Commit("revert", FALSE, FALSE, Cur, UndoHistory_revert(Cur, brk))
    /\ UNCHANGED <<m_self, m_cand, m_res, m_base, grouping>>

\* No trait rejects a value.
Undo == UndoWith({})

Redo == RedoWith({})

Revert == RevertWith({})

Clear ==
    /\ Commit("clear", FALSE, FALSE, Cur, UndoHistory_clear(Cur))
    /\ UNCHANGED <<m_self, m_cand, m_res, m_base, grouping>>

Next ==
    \/ \E extend \in BOOLEAN : SetTrait(extend)
    \/ \E extend \in BOOLEAN : SpliceTrait(extend)
    \/ Undo
    \/ Redo
    \/ Revert
    \/ Clear

Spec == Init /\ [][Next]_vars

\* The same history over traits that may reject a value during any call.
NextFaults ==
    \/ \E extend \in BOOLEAN : SetTrait(extend)
    \/ \E extend \in BOOLEAN : SpliceTrait(extend)
    \/ \E brk \in FaultSets : UndoWith(brk)
    \/ \E brk \in FaultSets : RedoWith(brk)
    \/ \E brk \in FaultSets : RevertWith(brk)
    \/ Clear

SpecFaults == Init /\ [][NextFaults]_vars

\* Every change of a tracked trait is recorded with add(item, extend=False)
\* at the moment it happens; the user undoes, redoes and reverts.
NextTracked ==
    \/ SetTrait(FALSE)
    \/ SpliceTrait(FALSE)
    \/ Undo
    \/ Redo
    \/ Revert

SpecTracked == Init /\ [][NextTracked]_vars

-----------------------------------------------------------------------------
(* A history that holds one transaction of one UndoItem receives a second  *)
(* UndoItem for the same trait: the merge rules of UndoItem.merge_undo on  *)
(* numbers, strings and lists, seen through add, undo and redo.            *)

MergeElems == IntElems \cup ObjElems

Nums == {IntV(0), IntV(1), FloatV(0), FloatV(1)}
Strs == {StrV(cs) : cs \in SeqsUpTo(Chars, MaxStrLen)}
Lists == {ListV(es) : es \in SeqsUpTo(MergeElems, MaxSeqLen)}
Values == Nums \cup Strs \cup Lists

\* The first change of the trait: it keeps its type, or it was None.
FirstChanges ==
    {c \in (Values \cup {NoneV}) \X Values :
        c[1] # c[2] /\ (c[1] = NoneV \/ c[1].t = c[2].t)}

InitMerge ==
    \E c \in FirstChanges :
        /\ history = <<<<UndoItem(FX[1], FX[2], c[1], c[2])>>>>
        /\ now = 1
        /\ undoable = TRUE
        /\ redoable = FALSE
        /\ fields = [InitFields EXCEPT ![FX] = c[2]]
        /\ last = [NoCall EXCEPT !.op = "add"]
        /\ m_self = UndoItem(FX[1], FX[2], c[1], c[2])
        /\ m_cand = NoItem
        /\ m_res = NoMerge
        /\ m_base = [InitFields EXCEPT ![FX] = c[1]]
        /\ grouping = FALSE

\* The trait changes again and the change is recorded with add(item).
SecondChange ==
    /\ ~m_res.done
    /\ now = 1
    /\ \E v \in Values \ {fields[FX]} :
          LET item == UndoItem(FX[1], FX[2], fields[FX], v)
              m0 == Machine(history, now, undoable, redoable,
                            [fields EXCEPT ![FX] = v])
              res == merge_undo(history[1][1], item)
          IN /\ Commit("add", FALSE, Merged(m0, item, FALSE), m0,
                       UndoHistory_add(m0, item, FALSE))
             /\ m_cand' = item
             /\ m_res' = [done |-> TRUE, ok |-> res.ok, self |-> res.self]
             /\ UNCHANGED <<m_self, m_base, grouping>>

NextMerge ==
    \/ SecondChange
    \/ Undo
    \/ Redo

SpecMerge == InitMerge /\ [][NextMerge]_vars

-----------------------------------------------------------------------------
(* What the calls that are possible in the current state would do.         *)

\* The events a call fired, in order.
Emits(log) == SelectSeq(log, LAMBDA e : e.ev = "emit")

\* The records whose undo() or redo() a call entered, in order.
Calls(log) == SelectSeq(log, LAMBDA e : e.ev \in {"undo", "redo"})

\* The machine as add() finds it once the observer has seen change c.
Changed(c) == Machine(history, now, undoable, redoable, c.fields)

Changes == SetChanges \cup SpliceChanges

-----------------------------------------------------------------------------
(* C1: in every state reachable by add, extend, undo, redo, revert and     *)
(* clear from the empty history, 0 <= now <= len(history).                 *)
CursorInBounds == 0 <= now /\ now <= Len(history)

\* The cursor stands strictly inside a history after an undo.
CursorInside == last.op = "undo" /\ 0 < now /\ now < Len(history)

(* C2: after every completed call the value last fired on `undoable` is    *)
(* (now > 0) and the value last fired on `redoable` is                     *)
(* (now < len(history)); an add that removes redoable transactions fires   *)
(* redoable = False, also when its item is merged.                         *)
SignalsNeverStale ==
    /\ undoable = (now > 0)
    /\ redoable = (now < Len(history))

(* C3: when every change of a tracked trait is recorded with               *)
(* add(item, extend=False) as it happens, revert() leaves every tracked    *)
(* trait at the value it had when the history was empty, and the history   *)
(* empty with now = 0 and nothing to undo or redo.                         *)
RevertRestores ==
    last.op = "revert" =>
        /\ fields = InitFields
        /\ history = <<>>
        /\ now = 0
        /\ ~can_undo(Cur)
        /\ ~can_redo(Cur)

(* C4: after any add(item, extend=False) no redoable transaction remains;  *)
(* when the item is not merged the transactions below the old cursor are   *)
(* kept, those from the old cursor on are discarded, one transaction       *)
(* holding exactly [item] is appended and now grows by exactly 1.          *)
AddTruncates ==
    \A c \in Changes :
        LET m0 == Changed(c)
            m1 == UndoHistory_add(m0, c.item, FALSE)
        IN /\ m1.now = Len(m1.history)
           /\ ~can_redo(m1)
           /\ ~Merged(m0, c.item, FALSE) =>
                /\ m1.now = m0.now + 1
                /\ SubSeq(m1.history, 1, m0.now) = SubSeq(m0.history, 1, m0.now)
                /\ Len(m1.history) = m0.now + 1
                /\ m1.history[m1.now] = <<c.item>>
                /\ m1.fields = m0.fields

\* An add that was not merged has just discarded redoable transactions.
AddTruncated ==
    /\ last.op = "add" /\ ~last.extend /\ ~last.merged /\ last.tail
    /\ now = Len(history)

(* C5: merge_undo on two UndoItems of one trait whose new values are       *)
(* character strings returns True and adopts the candidate's new value     *)
(* when the two new values differ by at most one single-character          *)
(* insertion, deletion or substitution (add then leaves one transaction),  *)
(* and returns False when they differ by more (add then leaves two).       *)
RemoveAt(s, i) == SubSeq(s, 1, i - 1) \o SubSeq(s, i + 1, Len(s))

OneEdit(a, b) ==
    \/ a = b
    \/ /\ Len(a) = Len(b)
       /\ Cardinality({i \in 1..Len(a) : a[i] # b[i]}) = 1
    \/ /\ Len(b) = Len(a) + 1
       /\ \E i \in 1..Len(b) : RemoveAt(b, i) = a
    \/ /\ Len(a) = Len(b) + 1
       /\ \E i \in 1..Len(a) : RemoveAt(a, i) = b

StringsMergeOnOneEdit ==
    (m_res.done /\ m_self.new_value.t = "str" /\ m_cand.new_value.t = "str") =>
        IF OneEdit(m_self.new_value.s, m_cand.new_value.s)
        THEN /\ m_res.ok
             /\ m_res.self.new_value = m_cand.new_value
             /\ Len(history) = 1
        ELSE /\ ~m_res.ok
             /\ Len(history) = 2

(* C6 as claimed: a numeric UndoItem alone in the transaction behind the   *)
(* cursor absorbs an added UndoItem of the same trait whose new value is   *)
(* numeric of any kind: no transaction is added, the record keeps its old  *)
(* value A and adopts the new value C, undo sets the trait to A and redo   *)
(* to C.                                                                   *)
Coalesced ==
    /\ m_res.ok
    /\ Len(history) = 1
    /\ history[1] = <<[m_self EXCEPT !.new_value = m_cand.new_value]>>
    /\ last.op = "undo" => fields[FX] = m_self.old_value
    /\ last.op = "redo" => fields[FX] = m_cand.new_value

NumbersAlwaysCoalesce ==
    (/\ m_res.done
     /\ m_self.new_value.t \in NumericTypes
     /\ m_cand.new_value.t \in NumericTypes) => Coalesced

(* C6 as amended: the same, when the candidate's new value is numeric of   *)
(* the same type as the record's new value (int with int, float with       *)
(* float).                                                                 *)
SameTypeNumbersCoalesce ==
    (/\ m_res.done
     /\ m_self.new_value.t \in NumericTypes
     /\ m_cand.new_value.t = m_self.new_value.t) => Coalesced

\* A -> B and B -> C were coalesced and a redo has set the trait to C.
CoalescedRedone ==
    /\ m_res.done /\ m_res.ok
    /\ m_self.new_value.t \in NumericTypes
    /\ m_self.old_value # m_cand.new_value
    /\ last.op = "redo"
    /\ fields[FX] = m_cand.new_value

(* C7 as claimed: on two UndoItems of one trait whose new values are lists *)
(* of simple scalars, merge_undo returns True (adopting the candidate's    *)
(* new value, keeping the old value) if and only if the record's new       *)
(* value, the candidate's new value and the record's old value have equal  *)
(* length and the candidate's new value differs from the old value in at   *)
(* most one position.                                                      *)
SimpleList(v) == v.t = "list" /\ \A i \in 1..Len(v.s) : v.s[i].t \in SimpleTypes

ListsOfScalars ==
    /\ m_res.done
    /\ SimpleList(m_self.new_value)
    /\ SimpleList(m_cand.new_value)
    /\ m_self.old_value.t = "list" => SimpleList(m_self.old_value)

\* The positions where the candidate's new value differs from the record's
\* old value (both of one length).
Differing(old, new) == {i \in 1..Len(old.s) : old.s[i] # new.s[i]}

Adopted ==
    m_res.ok => m_res.self = [m_self EXCEPT !.new_value = m_cand.new_value]

ListsMergeOnAtMostOneDiff ==
    ListsOfScalars =>
        /\ m_res.ok <=>
              /\ IsSequence(m_self.old_value)
              /\ Len(m_self.new_value.s) = Len(m_cand.new_value.s)
              /\ Len(m_self.old_value.s) = Len(m_cand.new_value.s)
              /\ Cardinality(Differing(m_self.old_value, m_cand.new_value)) <= 1
        /\ Adopted

(* C7 as amended: merge_undo returns True (adopting the candidate's new    *)
(* value, keeping the old value) if and only if the record's old value is  *)
(* a sequence of the same length as the candidate's new value and the      *)
(* candidate's new value differs from it in exactly one position; the      *)
(* length of the record's own new value is not compared.                   *)
ListsMergeOnExactlyOneDiff ==
    ListsOfScalars =>
        /\ m_res.ok <=>
              /\ IsSequence(m_self.old_value)
              /\ Len(m_self.old_value.s) = Len(m_cand.new_value.s)
              /\ Cardinality(Differing(m_self.old_value, m_cand.new_value)) = 1
        /\ Adopted

\* Two lists were merged although the record's own new value had another
\* length than the candidate's.
ListsMergedAcrossLengths ==
    /\ ListsOfScalars
    /\ m_res.ok
    /\ Len(m_self.new_value.s) # Len(m_cand.new_value.s)

(* C8: undo() at now = 0 and redo() at now = len(history) change nothing:  *)
(* not now, not the history, not a tracked trait, not a signal; no         *)
(* record's undo or redo is entered, nothing is fired, nothing raises.     *)
InvalidCallsAreNoOps ==
    \A brk \in FaultSets :
        /\ now = 0 => UndoHistory_undo(Cur, brk) = Cur
        /\ now = Len(history) => UndoHistory_redo(Cur, brk) = Cur

\* An undo() was called on a history with nothing to undo, a redo() with
\* nothing to redo.
InvalidCallMade ==
    \/ last.op = "undo" /\ ~last.tail /\ now = 0 /\ Len(history) = 0
    \/ last.op = "redo" /\ ~last.tail /\ now = Len(history)

(* C9: each value a call fires on `undoable` differs from (now > 0) as it  *)
(* was just before the call, each value it fires on `redoable` differs     *)
(* from (now < len(history)) as it was just before the call, and no call   *)
(* fires the same signal twice.                                            *)
EdgesOnly(m0, m1) ==
    LET E == Emits(m1.log)
    IN \A i \in 1..Len(E) :
          /\ E[i].sig = "undoable" => E[i].val # can_undo(m0)
          /\ E[i].sig = "redoable" => E[i].val # can_redo(m0)
          /\ \A j \in 1..Len(E) : j # i => E[j].sig # E[i].sig

SignalsFireOnEdges ==
    /\ \A c \in Changes, e \in BOOLEAN :
          EdgesOnly(Changed(c), UndoHistory_add(Changed(c), c.item, e))
    /\ \A c \in Changes :
          EdgesOnly(Changed(c), UndoHistory_extend(Changed(c), c.item))
    /\ \A brk \in FaultSets :
          /\ EdgesOnly(Cur, UndoHistory_undo(Cur, brk))
          /\ EdgesOnly(Cur, UndoHistory_redo(Cur, brk))
          /\ EdgesOnly(Cur, UndoHistory_revert(Cur, brk))
    /\ EdgesOnly(Cur, UndoHistory_clear(Cur))

\* A clear() has just fired redoable = False on a history that had
\* redoable transactions.
ClearFired == last.op = "clear" /\ last.tail /\ ~redoable

(* C10: when a trait's assignment or splice raises inside a record's       *)
(* undo() or redo(), the fault goes to the sink at that record; undo, redo *)
(* and revert still enter every other record, move the cursor and fire the *)
(* signals as without the fault, and nothing raises out of them.           *)
FaultsToSink(m1, brk) ==
    \A i \in 1..Len(m1.log) :
        LET e == m1.log[i]
        IN /\ e.ev = "fault" =>
                /\ i > 1
                /\ m1.log[i - 1].ev \in {"undo", "redo"}
                /\ m1.log[i - 1].item = e.item
           /\ (e.ev \in {"undo", "redo"} /\ FieldOf(e.item) \in brk) =>
                /\ i < Len(m1.log)
                /\ m1.log[i + 1] = [ev |-> "fault", item |-> e.item]

Contained(faulty, clean, brk) ==
    /\ ~faulty.raised
    /\ faulty.now = clean.now
    /\ faulty.history = clean.history
    /\ faulty.undoable = clean.undoable
    /\ faulty.redoable = clean.redoable
    /\ Emits(faulty.log) = Emits(clean.log)
    /\ Calls(faulty.log) = Calls(clean.log)
    /\ FaultsToSink(faulty, brk)
    /\ \A f \in Tracked \ brk : faulty.fields[f] = clean.fields[f]
    /\ \A f \in brk : faulty.fields[f] = fields[f]

FaultsContained ==
    LET undone == UndoHistory_undo(Cur, {})
        redone == UndoHistory_redo(Cur, {})
        reverted == UndoHistory_revert(Cur, {})
    IN \A brk \in FaultSets :
          /\ Contained(UndoHistory_undo(Cur, brk), undone, brk)
          /\ Contained(UndoHistory_redo(Cur, brk), redone, brk)
          /\ Contained(UndoHistory_revert(Cur, brk), reverted, brk)

\* An undo or a revert of a transaction of two records met a fault, did
\* not raise, and moved the cursor to 0.
FaultMet ==
    /\ last.op \in {"undo", "revert"} /\ last.faults /\ ~last.raised
    /\ now = 0 /\ ~undoable
    /\ \/ last.op = "revert"
       \/ Len(history) > 0 /\ Len(history[1]) = 2

-----------------------------------------------------------------------------
(* One change record on its own: the trait holds the value it had before   *)
(* the recorded change, and the record's redo() and undo() are called      *)
(* directly.                                                               *)

\* The splices of a list: the list before, and the record an observer
\* builds from replacing the run of k elements at idx by `added`.
ListRecordChanges ==
    {[base |-> [InitFields EXCEPT ![FL] = ListV(c[1])],
      item |-> ListUndoItem(FL[1], FL[2], c[2], c[4],
                            SubSeq(c[1], c[2] + 1, c[2] + c[3]))] :
        c \in {a \in SeqsUpTo(MergeElems, MaxSeqLen) \X (0..MaxSeqLen)
                      \X (0..MaxSeqLen) \X SeqsUpTo(MergeElems, MaxSeqLen) :
                  /\ a[2] + a[3] <= Len(a[1])
                  /\ Len(a[1]) - a[3] + Len(a[4]) <= MaxSeqLen
                  /\ SubSeq(a[1], a[2] + 1, a[2] + a[3]) # a[4]}}

\* The changes of a trait from A to B: the trait before, and the record.
ValueRecordChanges ==
    {[base |-> [InitFields EXCEPT ![FX] = c[1]],
      item |-> UndoItem(FX[1], FX[2], c[1], c[2])] : c \in FirstChanges}

InitRecord ==
    \E r \in ListRecordChanges \cup ValueRecordChanges :
        /\ history = <<>>
        /\ now = 0
        /\ undoable = FALSE
        /\ redoable = FALSE
        /\ fields = r.base
        /\ last = NoCall
        /\ m_self = r.item
        /\ m_cand = NoItem
        /\ m_res = NoMerge
        /\ m_base = r.base
        /\ grouping = FALSE

\* item.redo(): for a splice, only on the list as it was before the change.
ItemRedo ==
    /\ m_self.cls = "UndoItem" \/ last.op \in {"init", "undo"}
    /\ Commit("redo", FALSE, FALSE, Cur, item_redo(m_self, Cur, {}))
    /\ UNCHANGED <<m_self, m_cand, m_res, m_base, grouping>>

\* item.undo(): for a splice, only on the list as redo() left it.
ItemUndo ==
    /\ m_self.cls = "UndoItem" \/ last.op = "redo"
    /\ Commit("undo", FALSE, FALSE, Cur, item_undo(m_self, Cur, {}))
    /\ UNCHANGED <<m_self, m_cand, m_res, m_base, grouping>>

NextRecord ==
    \/ ItemRedo
    \/ ItemUndo

SpecRecord == InitRecord /\ [][NextRecord]_vars

(* C11: an UndoItem with old value A and new value B leaves the trait at A *)
(* after undo() and at B after redo(), whatever was called before; a       *)
(* ListUndoItem (index, removed, added) redone on a list whose run at      *)
(* index equals `removed` yields the list with that run replaced by        *)
(* `added`, and undone after that yields the original list exactly.        *)
RunReplaced(list, index, removed, added) ==
    [i \in 1..(Len(list) - Len(removed) + Len(added)) |->
        IF i <= index THEN list[i]
        ELSE IF i <= index + Len(added) THEN added[i - index]
        ELSE list[i - Len(added) + Len(removed)]]

RecordRoundTrip ==
    /\ m_self.cls = "UndoItem" =>
          /\ last.op = "undo" => fields[FX] = m_self.old_value
          /\ last.op = "redo" => fields[FX] = m_self.new_value
          /\ fields[FL] = m_base[FL]
    /\ m_self.cls = "ListUndoItem" =>
          /\ last.op = "redo" =>
                fields[FL] = ListV(RunReplaced(m_base[FL].s, m_self.index,
                                               m_self.removed, m_self.added))
          /\ last.op = "undo" => fields[FL] = m_base[FL]
          /\ fields[FX] = m_base[FX]
    /\ ~last.faults

\* A splice that put one element in the place of two was redone and then
\* undone.
SpliceRoundTripped ==
    /\ m_self.cls = "ListUndoItem"
    /\ Len(m_self.removed) = 2 /\ Len(m_self.added) = 1
    /\ last.op = "undo"
    /\ fields[FL] = m_base[FL]

-----------------------------------------------------------------------------
\* The sequence s backwards.
Reverse(s) == [i \in 1..Len(s) |-> s[Len(s) + 1 - i]]

\* The records a call entered, in order, each with the method entered.
Entered(m) == [i \in 1..Len(Calls(m.log)) |->
                  <<Calls(m.log)[i].ev, Calls(m.log)[i].item>>]

\* Each record of items, in order, with the method `what`.
Each(what, items) == [i \in 1..Len(items) |-> <<what, items[i]>>]

(* C12: undo() when can_undo moves the cursor back by exactly 1 and enters *)
(* undo() exactly once on each record of the transaction at the new cursor *)
(* index, last record first; redo() when can_redo enters redo() exactly    *)
(* once on each record of the transaction at the old cursor index, first   *)
(* record first, and moves the cursor forward by exactly 1; neither enters *)
(* a record of another transaction nor changes the transaction list.       *)
ReplayOrder ==
    /\ can_undo(Cur) =>
          LET m1 == UndoHistory_undo(Cur, {})
          IN /\ m1.now = now - 1
             /\ m1.history = history
             /\ Entered(m1) = Each("undo", Reverse(history[now]))
    /\ can_redo(Cur) =>
          LET m1 == UndoHistory_redo(Cur, {})
          IN /\ m1.now = now + 1
             /\ m1.history = history
             /\ Entered(m1) = Each("redo", history[now + 1])

\* A transaction of two different records was undone and has just been
\* redone.
PairReplayed ==
    /\ last.op = "redo" /\ last.tail
    /\ now > 0
    /\ Len(history[now]) = 2
    /\ history[now][1] # history[now][2]

-----------------------------------------------------------------------------
\* add(item, extend=True) merged the item into the last record of
\* transaction k of h0, or appended it to that transaction, giving h1.
ExtendedAt(h0, h1, k, item) ==
    LET n == Len(h0[k])
        res == merge_undo(h0[k][n], item)
    IN IF res.ok
       THEN h1 = [h0 EXCEPT ![k] = [h0[k] EXCEPT ![n] = res.self]]
       ELSE h1 = [h0 EXCEPT ![k] = h0[k] \o <<item>>]

(* C13 as claimed: add(item, extend=True) appends the item to the last     *)
(* transaction of the history whenever the history holds a transaction     *)
(* (after trying to merge it with that transaction's last record) and is a *)
(* no-op only when the history is empty, for every cursor position.        *)
ExtendTargetsLast ==
    \A c \in Changes :
        LET m0 == Changed(c)
            m1 == UndoHistory_add(m0, c.item, TRUE)
        IN IF Len(history) = 0
           THEN m1 = m0
           ELSE /\ ExtendedAt(history, m1.history, Len(history), c.item)
                /\ m1.now = now

(* C13 as amended: add(item, extend=True) appends the item to the          *)
(* transaction immediately behind the cursor (index now - 1) whenever      *)
(* now > 0, after trying to merge it with that transaction's last record,  *)
(* and is a no-op whenever now = 0, also when the history holds            *)
(* transactions that can be redone.                                        *)
ExtendTargetsCursor ==
    \A c \in Changes :
        LET m0 == Changed(c)
            m1 == UndoHistory_add(m0, c.item, TRUE)
        IN IF now = 0
           THEN m1 = m0
           ELSE /\ ExtendedAt(history, m1.history, now, c.item)
                /\ m1.now = now

\* An add(item, extend=True) was made with the cursor at 0 in front of
\* transactions that can be redone.
ExtendIgnoredAtZero ==
    /\ last.op = "add" /\ last.extend /\ last.tail
    /\ now = 0
    /\ Len(history) > 0

-----------------------------------------------------------------------------
(* A user interface that groups changes: each change of the numeric trait *)
(* opens a transaction, each splice of the list trait opens one or extends *)
(* the transaction behind the cursor; the user undoes and redoes.          *)

InitGroup ==
    /\ history = <<>>
    /\ now = 0
    /\ undoable = FALSE
    /\ redoable = FALSE
    /\ fields = InitFields
    /\ last = NoCall
    /\ m_self = NoItem
    /\ m_cand = NoItem
    /\ m_res = NoMerge
    /\ m_base = InitFields
    /\ grouping = TRUE

NextGroup ==
    \/ SetTrait(FALSE)
    \/ \E extend \in BOOLEAN : SpliceTrait(extend)
    \/ Undo
    \/ Redo

SpecGroup == InitGroup /\ [][NextGroup]_vars

(* C14: add(item, extend=False) tries a merge only with the transaction    *)
(* immediately behind the cursor and only when it holds exactly one        *)
(* record: when it holds two or more records, or now = 0, the item is not  *)
(* merged and a new transaction is appended, even when the item could be   *)
(* merged with a record of that transaction.  When the merge succeeds, now *)
(* is unchanged, the transactions below index now - 1 are unchanged, and   *)
(* every transaction at index >= now is discarded.                         *)
MergeOnlyIntoSingle ==
    \A c \in Changes :
        LET m0 == Changed(c)
            m1 == UndoHistory_add(m0, c.item, FALSE)
            single == now > 0 /\ Len(history[now]) = 1
        IN /\ (single /\ merge_undo(history[now][1], c.item).ok) =>
                /\ m1.now = now
                /\ Len(m1.history) = now
                /\ SubSeq(m1.history, 1, now - 1) = SubSeq(history, 1, now - 1)
                /\ m1.history[now] = <<merge_undo(history[now][1], c.item).self>>
           /\ ~(single /\ merge_undo(history[now][1], c.item).ok) =>
                /\ m1.now = now + 1
                /\ m1.history = SubSeq(history, 1, now) \o <<(<<c.item>>)>>

\* An add(item, extend=False) has opened a transaction behind a transaction
\* of two records, with whose first record the item could have been merged.
AddedBehindGroup ==
    /\ last.op = "add" /\ ~last.extend /\ ~last.merged
    /\ now = 2
    /\ Len(history[1]) = 2
    /\ Len(history[2]) = 1
    /\ merge_undo(history[1][1], history[2][1]).ok

-----------------------------------------------------------------------------
\* The records of the transactions of h, in order.
RECURSIVE Flatten(_)
Flatten(h) == IF h = <<>> THEN <<>> ELSE Head(h) \o Flatten(Tail(h))

(* C15: revert() enters undo() exactly once on each record of the          *)
(* transactions at indices now - 1 down to 0, last transaction first and   *)
(* last record first within each, and on no record of a transaction at an  *)
(* index >= now.                                                           *)
RevertOrder ==
    Entered(UndoHistory_revert(Cur, {}))
        = Each("undo", Reverse(Flatten(SubSeq(history, 1, now))))

\* A revert() in front of transactions that could be redone has entered a
\* record.
RevertedBehindTail ==
    /\ last.op = "revert" /\ last.tail
    /\ last.entered > 0

-----------------------------------------------------------------------------
(* C16 as claimed: revert() undoes first and clears afterwards: while each *)
(* record's undo() runs the history still holds its transactions and its   *)
(* cursor, and the history is emptied, now set to 0 and undoable/redoable  *)
(* = False fired only after the last record has been undone.               *)
RevertUndoesThenClears ==
    LET log == UndoHistory_revert(Cur, {}).log
    IN \A i \in 1..Len(log) :
          log[i].ev = "undo" =>
              /\ log[i].now = now
              /\ log[i].hlen = Len(history)
              /\ \A j \in 1..Len(log) : log[j].ev = "emit" => j > i

(* C16 as amended: revert() copies the transactions below the cursor,      *)
(* clears first and undoes afterwards: the history is already empty with   *)
(* now = 0, and undoable/redoable = False already fired, when the first    *)
(* record's undo() runs, and stays so through every record's undo().       *)
RevertClearsThenUndoes ==
    LET log == UndoHistory_revert(Cur, {}).log
    IN \A i \in 1..Len(log) :
          log[i].ev = "undo" =>
              /\ log[i].now = 0
              /\ log[i].hlen = 0
              /\ \A j \in 1..Len(log) : log[j].ev = "emit" => j < i

\* A revert() has undone two records.
RevertedTwo ==
    /\ last.op = "revert"
    /\ last.entered = 2
    /\ history = <<>> /\ now = 0

-----------------------------------------------------------------------------
(* The history nested in an UndoHistoryUndoItem: besides the calls made on *)
(* it directly, the enclosing history undoes and redoes the item.          *)

NestedUndo ==
    /\ Commit("item_undo", FALSE, FALSE, Cur, UndoHistoryUndoItem_undo(Cur, {}))
    /\ UNCHANGED <<m_self, m_cand, m_res, m_base, grouping>>

NestedRedo ==
    /\ Commit("item_redo", FALSE, FALSE, Cur, UndoHistoryUndoItem_redo(Cur, {}))
    /\ UNCHANGED <<m_self, m_cand, m_res, m_base, grouping>>

NextNested ==
    \/ \E extend \in BOOLEAN : SetTrait(extend)
    \/ \E extend \in BOOLEAN : SpliceTrait(extend)
    \/ Undo
    \/ Redo
    \/ NestedUndo
    \/ NestedRedo

SpecNested == Init /\ [][NextNested]_vars

(* C17: UndoHistoryUndoItem.undo() and redo() leave the nested history's   *)
(* now, its transaction list and the values fired on undoable/redoable     *)
(* unchanged and fire nothing; undo() enters undo() on the records of the  *)
(* nested transactions at indices now - 1 down to 0, records last to       *)
(* first; redo() enters redo() on those at indices 0 up to now - 1,        *)
(* records first to last; neither enters a record of a transaction at an   *)
(* index >= now.                                                           *)
ReadThrough(m1) ==
    /\ m1.now = now
    /\ m1.history = history
    /\ m1.undoable = undoable
    /\ m1.redoable = redoable
    /\ Emits(m1.log) = <<>>
    /\ ~m1.raised

NestedReplayReadsThrough ==
    LET undone == UndoHistoryUndoItem_undo(Cur, {})
        redone == UndoHistoryUndoItem_redo(Cur, {})
        behind == Flatten(SubSeq(history, 1, now))
    IN /\ ReadThrough(undone)
       /\ Entered(undone) = Each("undo", Reverse(behind))
       /\ ReadThrough(redone)
       /\ Entered(redone) = Each("redo", behind)

\* The item's redo() has replayed a nested history whose cursor stands in
\* front of a transaction that can be redone.
NestedReplayedBehindTail ==
    /\ last.op = "item_redo" /\ last.tail
    /\ last.entered > 0
    /\ 0 < now /\ now < Len(history)

-----------------------------------------------------------------------------
(* A history that holds one transaction of one record, of either class, is *)
(* offered a candidate: the same record again, the record with one of its  *)
(* parts changed (object, trait name, a value, the index), or a record of  *)
(* the other class.                                                        *)

OtherObject == "o2"
OtherName == "y"

Receivers ==
    {c.item : c \in ValueRecordChanges} \cup {c.item : c \in ListRecordChanges}

\* An UndoItem for the trait the receiver is about.
PlainItem(self) ==
    UndoItem(self.object, self.name, IntV(0), IntV(1))

\* A ListUndoItem for the trait the receiver is about.
PlainSplice(self) ==
    ListUndoItem(self.object, self.name, 0, <<>>, <<>>)

Candidates(self) ==
    {self, [self EXCEPT !.object = OtherObject], [self EXCEPT !.name = OtherName]}
    \cup (IF self.cls = "UndoItem"
          THEN {UndoItem(self.object, self.name, self.new_value, v) : v \in Values}
               \cup {PlainSplice(self)}
          ELSE {[self EXCEPT !.index = i] : i \in 0..MaxSeqLen}
               \cup {[self EXCEPT !.added = a] : a \in SeqsUpTo(MergeElems, 1)}
               \cup {[self EXCEPT !.removed = r] : r \in SeqsUpTo(MergeElems, 1)}
               \cup {PlainItem(self)})

InitOffer ==
    \E r \in Receivers :
        /\ history = <<<<r>>>>
        /\ now = 1
        /\ undoable = TRUE
        /\ redoable = FALSE
        /\ fields = InitFields
        /\ last = [NoCall EXCEPT !.op = "add"]
        /\ m_self = r
        /\ m_cand = NoItem
        /\ m_res = NoMerge
        /\ m_base = InitFields
        /\ grouping = FALSE

\* add(candidate): the history calls history[0][0].merge_undo(candidate).
OfferCandidate ==
    /\ ~m_res.done
    /\ \E cand \in Candidates(m_self) :
          LET res == merge_undo(history[1][1], cand)
          IN /\ Commit("add", FALSE, res.ok, Cur, UndoHistory_add(Cur, cand, FALSE))
             /\ m_cand' = cand
             /\ m_res' = [done |-> TRUE, ok |-> res.ok, self |-> res.self]
             /\ UNCHANGED <<m_self, m_base, grouping>>

NextOffer == OfferCandidate

SpecOffer == InitOffer /\ [][NextOffer]_vars

(* C18: whenever merge_undo of an UndoItem or ListUndoItem returns False   *)
(* (other record class, other object, other trait name, or values that     *)
(* satisfy no merge rule), the receiving record is exactly what it was     *)
(* before the call, and so is the candidate, which add then commits as a   *)
(* transaction of its own.                                                 *)
RejectedMergeKeepsRecords ==
    (m_res.done /\ ~m_res.ok) =>
        /\ m_res.self = m_self
        /\ history = <<(<<m_self>>), (<<m_cand>>)>>

\* Reasons for which a candidate is rejected.
Foreign ==
    \/ m_cand.cls # m_self.cls
    \/ m_cand.object # m_self.object
    \/ m_cand.name # m_self.name

\* A candidate for the same trait was rejected on its values: a list that
\* differs from the record's old value in two positions.
RejectedOnValues ==
    /\ m_res.done /\ ~m_res.ok
    /\ ~Foreign
    /\ m_self.cls = "UndoItem"
    /\ m_self.old_value.t = "list" /\ m_cand.new_value.t = "list"
    /\ Len(m_self.old_value.s) = Len(m_cand.new_value.s)
    /\ Cardinality(Differing(m_self.old_value, m_cand.new_value)) = 2

-----------------------------------------------------------------------------
(* C19: extend(item) leaves now and len(history) unchanged and fires       *)
(* neither signal; every transaction other than the one at index now - 1   *)
(* is unchanged, so transactions that can be redone are kept; the          *)
(* transaction at now - 1 keeps its length (the item was merged into its   *)
(* last record) or grows by exactly one record, the item, appended last.   *)
ExtendKeepsSteps ==
    \A c \in Changes :
        LET m0 == Changed(c)
            m1 == UndoHistory_extend(m0, c.item)
        IN /\ m1.now = now
           /\ Len(m1.history) = Len(history)
           /\ Emits(m1.log) = <<>>
           /\ m1.undoable = undoable /\ m1.redoable = redoable
           /\ \A k \in 1..Len(history) : k # now => m1.history[k] = history[k]
           /\ now > 0 =>
                \/ /\ Len(m1.history[now]) = Len(history[now])
                   /\ merge_undo(history[now][Len(history[now])], c.item).ok
                   /\ \A j \in 1..(Len(history[now]) - 1) :
                         m1.history[now][j] = history[now][j]
                \/ m1.history[now] = history[now] \o <<c.item>>

\* An add(item, extend=True) has appended its item to the transaction
\* behind the cursor and kept the transaction in front of it.
ExtendedBehindTail ==
    /\ last.op = "add" /\ last.extend /\ ~last.merged /\ last.tail
    /\ now = 1
    /\ Len(history) = 2
    /\ Len(history[1]) = 2
    /\ redoable

-----------------------------------------------------------------------------
(* C20: in every state reachable by add, extend, undo, redo, revert and    *)
(* clear from an empty history, every element of history is a list that    *)
(* holds at least one record.                                              *)
NoEmptyTransaction ==
    \A k \in 1..Len(history) :
        /\ Len(history[k]) >= 1
        /\ \A j \in 1..Len(history[k]) :
              history[k][j].cls \in {"UndoItem", "ListUndoItem"}

\* Two transactions are committed, one of them undone.
TwoCommitted ==
    /\ last.op = "undo" /\ last.entered = 1
    /\ Len(history) = 2
    /\ now = 1

====
